---- MODULE Spec2Model ----
(***************************************************************************)
(* Model of the search benchmark: ProjectUtils.h (dataset generation and   *)
(* loading, jumpSearch, interpolationSearch, measureSearchTime) and        *)
(* main.cpp (findClosestValues and the menu loop of main).                 *)
(*                                                                         *)
(* Vectors are sequences; the code's 0-based index i is position i + 1.    *)
(* The C++ type int is modelled as a signed integer of IntBits bits.       *)
(***************************************************************************)
EXTENDS Integers, Sequences, FiniteSets

VARIABLES
    dataset,    \* std::vector<int> dataset (the arr argument of the searches)
    target,     \* int target
    build,      \* what the build makes of a signed int overflow
    op,         \* the operation that ran last
    ret,        \* what that operation returned
    reads,      \* the indices the last search used to read arr
    fault,      \* "none", or the fault the last search ran into
    iters,      \* the passes of the loop body of the last interpolationSearch
    exit,       \* low and high as the last interpolationSearch left them
    prior,      \* the dataset as it was before the last operation
    file,       \* the file given to loadAndSortDatasetFromFile
    gen,        \* the arguments given to generateAndSortDataset
    result_index, \* int& result_index of measureSearchTime (found_idx of main)
    invoked,    \* the calls of search_func made by the last measureSearchTime
    called,     \* main: the functions the last pass of the menu loop called
    pc,         \* main: position in the menu loop
    choice,     \* main: int choice
    cinFail,    \* main: std::cin has failbit set
    out,        \* main: the last message printed
    closest,    \* main: std::vector<int> closest
    entered     \* main: what the last read had before it on std::cin

vars == <<dataset, target, build, op, ret, reads, fault, iters, exit, prior,
          file, gen, result_index, invoked, called, pc, choice, cinFail, out,
          closest, entered>>

menuVars == <<called, pc, choice, cinFail, out, closest, entered>>

(***************************************************************************)
(* Bounds of the model.                                                    *)
(***************************************************************************)
\* width of int in bits (32 in the build; scaled down)
IntBits == 8
\* the search inputs take values within EdgeSpan of INT_MIN, of 0 and of INT_MAX
EdgeSpan == 2
\* longest array given to the searches
MaxLen == 4
\* the longest evenly spread array given to the searches has MaxRun + 1 values
MaxRun == 10
\* the datasets given to findClosestValues take their values in 0..MaxVal
MaxVal == 13
\* and the longest of them has MaxLong + 1 values
MaxLong == 21
\* most lines of a file given to the loader
MaxLines == 5
\* most lines of a file in a sequence of calls
MaxApiLines == 2
\* in a sequence of calls generateAndSortDataset gets at most MaxGen elements
\* to draw from ranges within 0..GenSpan
MaxGen == 3
GenSpan == 3
\* longest duration the clock measures, in microseconds
MaxMicros == 1
\* DEFAULT_GEN_SIZE and DEFAULT_MAX_VAL of main (1000000 and 10000000 there)
DEFAULT_GEN_SIZE == 2
DEFAULT_MAX_VAL == 4

(***************************************************************************)
(* Constants of the program.                                               *)
(***************************************************************************)
DEFAULT_MIN_VAL == 1

(***************************************************************************)
(* int arithmetic.                                                         *)
(***************************************************************************)
RECURSIVE Pow2(_)
Pow2(k) == IF k = 0 THEN 1 ELSE 2 * Pow2(k - 1)

INT_MIN == -Pow2(IntBits - 1)
INT_MAX == Pow2(IntBits - 1) - 1
IntRange == INT_MIN..INT_MAX

Min(a, b) == IF a < b THEN a ELSE b
Max(a, b) == IF a > b THEN a ELSE b
Abs(a) == IF a < 0 THEN -a ELSE a

\* the value an int register holds after a result x that left the range of int
WrapInt(x) == ((x - INT_MIN) % Pow2(IntBits)) + INT_MIN

\* Signed overflow is undefined: a build either wraps the int result, or keeps
\* the exact value because it computes the difference in the wider type the
\* result is converted to.
Builds == {"wrap", "widen"}

\* a - b on two int operands, as the build b computes it
IntSub(a, b, bld) == IF bld = "wrap" THEN WrapInt(a - b) ELSE a - b

\* a / b of C++: the quotient truncated toward zero (b # 0)
TruncDiv(a, b) ==
    IF (a >= 0) = (b > 0) THEN Abs(a) \div Abs(b) ELSE -(Abs(a) \div Abs(b))

\* static_cast<int>(std::sqrt(n))
ISqrt(n) == CHOOSE k \in 0..n : k * k <= n /\ (k + 1) * (k + 1) > n

(***************************************************************************)
(* Vectors.                                                                *)
(***************************************************************************)
InBounds(arr, i) == i \in 0..(Len(arr) - 1)

\* arr[i]; a read outside the vector is undefined and yields an arbitrary
\* value (0 here); the searches record every index they read in reads.
At(arr, i) == IF InBounds(arr, i) THEN arr[i + 1] ELSE 0

StrictlyIncreasing(s) == \A i \in 1..(Len(s) - 1) : s[i] < s[i + 1]

Range(s) == {s[i] : i \in 1..Len(s)}

\* the elements of a set of integers in ascending order
RECURSIVE SetToSortedSeq(_)
SetToSortedSeq(S) ==
    IF S = {} THEN <<>>
    ELSE LET m == CHOOSE x \in S : \A y \in S : x <= y
         IN <<m>> \o SetToSortedSeq(S \ {m})

(***************************************************************************)
(* jumpSearch (ProjectUtils.h).                                            *)
(***************************************************************************)
\* mutant of BlockEnd: the end of the block is not capped at n
BlockEndUncapped(step, n) == step - 1

\* the index of the last element of the block that ends before step
BlockEnd(step, n) == Min(step, n) - 1

\* first loop: find the block where the target might be present
RECURSIVE JumpBlocks(_, _, _, _, _)
JumpBlocks(arr, tgt, prev, step, rd) ==
    LET n == Len(arr)
        i == BlockEnd(step, n)
    IN  IF prev < n /\ At(arr, i) < tgt
        THEN IF step >= n
             THEN [returned |-> TRUE, prev |-> step, reads |-> rd \cup {i}]
             ELSE JumpBlocks(arr, tgt, step, step + ISqrt(n), rd \cup {i})
        ELSE [returned |-> FALSE, prev |-> prev,
              reads |-> IF prev < n THEN rd \cup {i} ELSE rd]

\* mutant of JumpLinear: the scan also steps over an element equal to the target
RECURSIVE JumpLinearPastEqual(_, _, _, _)
JumpLinearPastEqual(arr, tgt, prev, rd) ==
    IF prev < Len(arr) /\ At(arr, prev) <= tgt
    THEN JumpLinearPastEqual(arr, tgt, prev + 1, rd \cup {prev})
    ELSE [prev |-> prev,
          reads |-> IF prev < Len(arr) THEN rd \cup {prev} ELSE rd]

\* second loop: linear search from prev
RECURSIVE JumpLinear(_, _, _, _)
JumpLinear(arr, tgt, prev, rd) ==
    IF prev < Len(arr) /\ At(arr, prev) < tgt
    THEN JumpLinear(arr, tgt, prev + 1, rd \cup {prev})
    ELSE [prev |-> prev,
          reads |-> IF prev < Len(arr) THEN rd \cup {prev} ELSE rd]

jumpSearch(arr, tgt) ==
    LET n == Len(arr)
    IN  IF n = 0 THEN [ret |-> -1, reads |-> {}, fault |-> "none"]
        ELSE LET blk == JumpBlocks(arr, tgt, 0, ISqrt(n), {})
             IN  IF blk.returned
                 THEN [ret |-> -1, reads |-> blk.reads, fault |-> "none"]
                 ELSE LET lin == JumpLinear(arr, tgt, blk.prev, blk.reads)
                      IN  [ret |-> IF lin.prev < n /\ At(arr, lin.prev) = tgt
                                   THEN lin.prev ELSE -1,
                           reads |-> lin.reads,
                           fault |-> "none"]

(***************************************************************************)
(* interpolationSearch (ProjectUtils.h).                                   *)
(***************************************************************************)
\* the probe position pos_calc, a long long
ProbePos(arr, tgt, low, high, bld) ==
    low + TruncDiv(high - low, IntSub(At(arr, high), At(arr, low), bld))
            * IntSub(tgt, At(arr, low), bld)

\* the indices the loop condition reads (&& evaluates left to right and stops
\* at the first false operand)
CondReads(arr, tgt, low, high) ==
    IF low > high THEN {}
    ELSE IF tgt < At(arr, low) THEN {low} ELSE {low, high}

\* the range of long long, twice as wide as int
LLONG_MIN == -Pow2(2 * IntBits - 1)
LLONG_MAX == Pow2(2 * IntBits - 1) - 1
LongRange == LLONG_MIN..LLONG_MAX

\* what one pass of the loop body worked on: the pass that returns from the
\* single-element branch computes nothing
SinglePass(low, high) ==
    [low |-> low, high |-> high, single |-> TRUE, span |-> 0, vdiff |-> 0,
     tdiff |-> 0, divisor |-> 0, quot |-> 0, prod |-> 0, pos_calc |-> 0]

\* the pass that evaluates the probe formula: vdiff and tdiff are the values
\* the two int subtractions stand for, divisor what the build makes of
\* arr[high] - arr[low], quot, prod and pos_calc the long long values
ProbePass(arr, tgt, low, high, bld) ==
    LET divisor == IntSub(At(arr, high), At(arr, low), bld)
        quot == IF divisor = 0 THEN 0 ELSE TruncDiv(high - low, divisor)
        prod == quot * IntSub(tgt, At(arr, low), bld)
    IN  [low |-> low, high |-> high, single |-> FALSE,
         span |-> high - low,
         vdiff |-> At(arr, high) - At(arr, low),
         tdiff |-> tgt - At(arr, low),
         divisor |-> divisor,
         quot |-> quot,
         prod |-> prod,
         pos_calc |-> IF divisor = 0 THEN 0 ELSE ProbePos(arr, tgt, low, high, bld)]

\* mutant of SingleElement: the single-element branch is never taken
SingleElementNever(low, high) == FALSE

\* if (low == high)
SingleElement(low, high) == low = high

\* mutant of RightPart: low = pos
RightPartFromProbe(pos) == pos

\* low = pos + 1
RightPart(pos) == pos + 1

\* high = pos - 1
LeftPart(pos) == pos - 1

\* low and high are all the state the loop has, so a pass that starts from a
\* range an earlier pass started from repeats the passes between them forever
Repeats(tr, low, high) ==
    \E k \in 1..Len(tr) : tr[k].low = low /\ tr[k].high = high

\* the loop; tr lists the passes of the body so far, and the result carries
\* low and high as the loop left them
RECURSIVE InterpLoop(_, _, _, _, _, _, _)
InterpLoop(arr, tgt, low, high, rd, bld, tr) ==
    LET rc == rd \cup CondReads(arr, tgt, low, high)
    IN  IF low <= high /\ tgt >= At(arr, low) /\ tgt <= At(arr, high)
        THEN IF Repeats(tr, low, high)
             THEN [ret |-> -1, reads |-> rc, fault |-> "loops forever",
                   iters |-> tr, low |-> low, high |-> high]
             ELSE IF SingleElement(low, high)
             THEN [ret |-> IF At(arr, low) = tgt THEN low ELSE -1,
                   reads |-> rc, fault |-> "none",
                   iters |-> Append(tr, SinglePass(low, high)),
                   low |-> low, high |-> high]
             ELSE LET it == ProbePass(arr, tgt, low, high, bld)
                      trp == Append(tr, it)
                  IN  IF it.divisor = 0
                      THEN [ret |-> -1, reads |-> rc, fault |-> "division by zero",
                            iters |-> trp, low |-> low, high |-> high]
                      ELSE LET pos == ProbePos(arr, tgt, low, high, bld)
                           IN  IF pos < low \/ pos > high
                               THEN [ret |-> -1, reads |-> rc, fault |-> "none",
                                     iters |-> trp, low |-> low, high |-> high]
                               ELSE IF At(arr, pos) = tgt
                               THEN [ret |-> pos, reads |-> rc \cup {pos},
                                     fault |-> "none",
                                     iters |-> trp, low |-> low, high |-> high]
                               ELSE IF At(arr, pos) < tgt
                               THEN InterpLoop(arr, tgt, RightPart(pos), high,
                                               rc \cup {pos}, bld, trp)
                               ELSE InterpLoop(arr, tgt, low, LeftPart(pos),
                                               rc \cup {pos}, bld, trp)
        ELSE [ret |-> -1, reads |-> rc, fault |-> "none",
              iters |-> tr, low |-> low, high |-> high]

interpolationSearch(arr, tgt, bld) ==
    InterpLoop(arr, tgt, 0, Len(arr) - 1, {}, bld, <<>>)

\* no interpolationSearch has run: low and high of no loop
NoExit == [low |-> 0, high |-> -1]

(***************************************************************************)
(* findClosestValues (main.cpp).                                           *)
(***************************************************************************)
\* std::lower_bound: the first index whose element is not less than val, by
\* halving the range [first, first + len)
RECURSIVE LowerBound(_, _, _, _)
LowerBound(arr, val, first, len) ==
    IF len > 0
    THEN LET half == len \div 2
             mid == first + half
         IN  IF At(arr, mid) < val
             THEN LowerBound(arr, val, mid + 1, len - half - 1)
             ELSE LowerBound(arr, val, first, half)
    ELSE first

\* the window [window_start, window_end] of indices around current_pos
Window(n, current_pos) ==
    LET ws0 == Max(0, current_pos - 5)
        we0 == Min(n - 1, current_pos + 4)
        ws1 == IF we0 - ws0 + 1 < 10 THEN Max(0, n - 10) ELSE ws0
        we1 == IF we0 - ws1 + 1 < 10 THEN Min(n - 1, 9) ELSE we0
    IN  [window_start |-> Max(0, ws1), window_end |-> Min(n - 1, we1)]

\* the loop that collects the window, leaving it once it holds 10 values
RECURSIVE CollectWindow(_, _, _, _)
CollectWindow(arr, i, window_end, acc) ==
    IF i <= window_end
    THEN LET pushed == Append(acc, At(arr, i))
         IN  IF Len(pushed) >= 10 THEN pushed
             ELSE CollectWindow(arr, i + 1, window_end, pushed)
    ELSE acc

\* mutant of FillFromFront: nothing is filled up
FillNothing(arr, i, needed, acc) == acc

\* the loop that fills up from the front of the dataset: indices 0..needed-1,
\* each pushed unless its value is already there
RECURSIVE FillFromFront(_, _, _, _)
FillFromFront(arr, i, needed, acc) ==
    IF i < needed /\ i < Len(arr)
    THEN FillFromFront(arr, i + 1, needed,
                       IF At(arr, i) \in Range(acc) THEN acc
                       ELSE Append(acc, At(arr, i)))
    ELSE acc

\* the comparator of the final sort: by distance to the target, then by value
CloserThan(a, b, tgt) ==
    LET diff_a == Abs(a - tgt)
        diff_b == Abs(b - tgt)
    IN  IF diff_a = diff_b THEN a < b ELSE diff_a < diff_b

\* s with x put in front of the first element that x comes before
RECURSIVE InsertByDistance(_, _, _)
InsertByDistance(s, x, tgt) ==
    IF s = <<>> THEN <<x>>
    ELSE IF CloserThan(x, Head(s), tgt) THEN <<x>> \o s
    ELSE <<Head(s)>> \o InsertByDistance(Tail(s), x, tgt)

\* std::sort with that comparator
RECURSIVE SortByDistance(_, _)
SortByDistance(s, tgt) ==
    IF s = <<>> THEN <<>>
    ELSE InsertByDistance(SortByDistance(Tail(s), tgt), Head(s), tgt)

\* resize(10) of a vector that is longer than 10
Truncate10(s) == IF Len(s) > 10 THEN SubSeq(s, 1, 10) ELSE s

findClosestValues(arr, tgt) ==
    IF arr = <<>> THEN <<>>
    ELSE LET n == Len(arr)
             current_pos == LowerBound(arr, tgt, 0, n)
             w == Window(n, current_pos)
             collected == Truncate10(
                 CollectWindow(arr, w.window_start, w.window_end, <<>>))
             filled == IF Len(collected) < 10 /\ n > Len(collected)
                       THEN FillFromFront(arr, 0, 10 - Len(collected), collected)
                       ELSE collected
         IN  Truncate10(SortByDistance(filled, tgt))

(***************************************************************************)
(* std::stoi on a line of the file.  A line is a sequence of characters.   *)
(***************************************************************************)
Digits == {"0", "1", "2", "3", "4", "5", "6", "7", "8", "9"}

DigitVal(c) ==
    CASE c = "0" -> 0 [] c = "1" -> 1 [] c = "2" -> 2 [] c = "3" -> 3
      [] c = "4" -> 4 [] c = "5" -> 5 [] c = "6" -> 6 [] c = "7" -> 7
      [] c = "8" -> 8 [] c = "9" -> 9

\* the characters std::isspace accepts: space, tab, newline, carriage
\* return, form feed and the vertical tab (the character 0x0B itself, which
\* has no escape)
Spaces == {" ", "\t", "\n", "\r", "\f", ""}

\* the line without its leading whitespace
RECURSIVE SkipSpaces(_)
SkipSpaces(line) ==
    IF line # <<>> /\ Head(line) \in Spaces THEN SkipSpaces(Tail(line)) ELSE line

\* the longest prefix of digits
RECURSIVE DigitPrefix(_)
DigitPrefix(line) ==
    IF line # <<>> /\ Head(line) \in Digits
    THEN <<Head(line)>> \o DigitPrefix(Tail(line))
    ELSE <<>>

\* the number the digits ds write, after the digits that gave acc; a number
\* past the range of int stays past it whatever digits follow
RECURSIVE DecimalValue(_, _)
DecimalValue(ds, acc) ==
    IF ds = <<>> \/ acc > INT_MAX + 1 THEN acc
    ELSE DecimalValue(Tail(ds), 10 * acc + DigitVal(Head(ds)))

\* std::stoi(line): leading whitespace is skipped, an optional sign and the
\* digits that follow are converted, and whatever follows the digits is
\* ignored.  No digit: std::invalid_argument.  A value that is no int:
\* std::out_of_range.
stoi(line) ==
    LET body == SkipSpaces(line)
        signed == body # <<>> /\ Head(body) \in {"+", "-"}
        ds == DigitPrefix(IF signed THEN Tail(body) ELSE body)
        magnitude == DecimalValue(ds, 0)
        value == IF signed /\ Head(body) = "-" THEN -magnitude ELSE magnitude
    IN  IF ds = <<>> THEN [thrown |-> "invalid_argument", value |-> 0]
        ELSE IF value < INT_MIN \/ value > INT_MAX
        THEN [thrown |-> "out_of_range", value |-> 0]
        ELSE [thrown |-> "none", value |-> value]

(***************************************************************************)
(* std::sort and std::unique on a vector of int.                           *)
(***************************************************************************)
RECURSIVE InsertAscending(_, _)
InsertAscending(s, x) ==
    IF s = <<>> THEN <<x>>
    ELSE IF x < Head(s) THEN <<x>> \o s
    ELSE <<Head(s)>> \o InsertAscending(Tail(s), x)

\* mutant of SortAscending: the vector is left in the order it came in
SortNothing(s) == s

\* std::sort(begin, end)
RECURSIVE SortAscending(_)
SortAscending(s) ==
    IF s = <<>> THEN <<>> ELSE InsertAscending(SortAscending(Tail(s)), Head(s))

\* std::unique followed by erase: of each run of equal neighbours the first
RECURSIVE Unique(_)
Unique(s) ==
    IF Len(s) <= 1 THEN s
    ELSE IF s[1] = s[2] THEN Unique(Tail(s))
    ELSE <<s[1]>> \o Unique(Tail(s))

(***************************************************************************)
(* loadAndSortDatasetFromFile (ProjectUtils.h).                            *)
(***************************************************************************)
\* the getline loop: the value of every line std::stoi converts, in file order
RECURSIVE ParseLines(_)
ParseLines(lines) ==
    IF lines = <<>> THEN <<>>
    ELSE LET r == stoi(Head(lines))
         IN  IF r.thrown = "none"
             THEN <<r.value>> \o ParseLines(Tail(lines))
             ELSE ParseLines(Tail(lines))

\* the getline loop, pushing onto the dataset ds
ReadInto(ds, lines) == ds \o ParseLines(lines)

\* mutant of loadAndSortDatasetFromFile: the dataset is cleared only once the
\* file is open
LoadClearingAfterOpen(ds, f) ==
    IF ~f.openable THEN [dataset |-> ds, ret |-> FALSE]
    ELSE LET loaded == ReadInto(<<>>, f.lines)
         IN  IF loaded = <<>> THEN [dataset |-> loaded, ret |-> FALSE]
             ELSE [dataset |-> Unique(SortAscending(loaded)), ret |-> TRUE]

\* the dataset ds is cleared before the file is opened; [dataset, ret] when
\* the function returns
loadAndSortDatasetFromFile(ds, f) ==
    LET cleared == <<>>
    IN  IF ~f.openable THEN [dataset |-> cleared, ret |-> FALSE]
        ELSE LET loaded == ReadInto(cleared, f.lines)
             IN  IF loaded = <<>> THEN [dataset |-> loaded, ret |-> FALSE]
                 ELSE [dataset |-> Unique(SortAscending(loaded)), ret |-> TRUE]

(***************************************************************************)
(* generateAndSortDataset (ProjectUtils.h).                                *)
(***************************************************************************)
\* every order in which the elements of S can come out of the unordered_set
RECURSIVE Orders(_)
Orders(S) ==
    IF S = {} THEN {<<>>}
    ELSE UNION {{<<x>> \o t : t \in Orders(S \ {x})} : x \in S}

\* the sets unique_numbers can hold when the while loop ends: num_elements
\* distinct values drawn from [min_val, max_val]
UniqueNumbers(num_elements, min_val, max_val) ==
    {T \in SUBSET (min_val..max_val) : Cardinality(T) = num_elements}

\* the datasets a call that returns can leave in place of ds: the set's
\* elements, assigned in the set's order, then sorted
generateAndSortDataset(ds, num_elements, min_val, max_val) ==
    UNION {{SortAscending(o) : o \in Orders(S)} :
              S \in UniqueNumbers(num_elements, min_val, max_val)}

(***************************************************************************)
(* measureSearchTime (ProjectUtils.h).                                     *)
(***************************************************************************)
SearchFuncs == {"jumpSearch", "interpolationSearch"}

\* search_func(dataset, target)
Invoke(search_func, arr, tgt, bld) ==
    IF search_func = "jumpSearch" THEN jumpSearch(arr, tgt)
    ELSE interpolationSearch(arr, tgt, bld)

\* mutant of measureSearchTime: a warm-up call before the timed one
MeasureAfterWarmUp(search_func, arr, tgt, bld) ==
    LET r == Invoke(search_func, arr, tgt, bld)
        call == [func |-> search_func, arr |-> arr, val |-> tgt]
    IN  [result_index |-> r.ret,
         invoked |-> <<call, call>>,
         reads |-> r.reads,
         fault |-> r.fault,
         iters |-> IF search_func = "jumpSearch" THEN <<>> ELSE r.iters,
         exit |-> IF search_func = "jumpSearch" THEN NoExit
                  ELSE [low |-> r.low, high |-> r.high]]

\* one call of search_func between the two clock reads; its return value goes
\* to result_index
measureSearchTime(search_func, arr, tgt, bld) ==
    LET r == Invoke(search_func, arr, tgt, bld)
    IN  [result_index |-> r.ret,
         invoked |-> <<[func |-> search_func, arr |-> arr, val |-> tgt]>>,
         reads |-> r.reads,
         fault |-> r.fault,
         iters |-> IF search_func = "jumpSearch" THEN <<>> ELSE r.iters,
         exit |-> IF search_func = "jumpSearch" THEN NoExit
                  ELSE [low |-> r.low, high |-> r.high]]

(***************************************************************************)
(* The operations as actions.  Every call records its arguments, its       *)
(* result and the dataset it found (prior); what belongs to other          *)
(* operations is reset.                                                    *)
(***************************************************************************)
NoFile == [openable |-> FALSE, lines |-> <<>>]
NoGen == [num_elements |-> 0, min_val |-> 0, max_val |-> 0]
\* nothing was read from std::cin yet
NoInput == [kind |-> "none", value |-> 0]

\* nothing of main has run
MenuIdle ==
    /\ called = {}
    /\ pc = "idle"
    /\ choice = 0
    /\ cinFail = FALSE
    /\ out = "none"
    /\ closest = <<>>
    /\ entered = NoInput

\* no operation has run on the dataset ds yet
Fresh(ds) ==
    /\ dataset = ds
    /\ prior = ds
    /\ op = "none"
    /\ ret = "none"
    /\ reads = {}
    /\ fault = "none"
    /\ iters = <<>>
    /\ exit = NoExit
    /\ result_index = -1
    /\ invoked = <<>>

DoJumpSearch(tgt) ==
    LET r == jumpSearch(dataset, tgt)
    IN  /\ op' = "jumpSearch"
        /\ target' = tgt
        /\ ret' = r.ret
        /\ reads' = r.reads
        /\ fault' = r.fault
        /\ iters' = <<>>
        /\ exit' = NoExit
        /\ prior' = dataset
        /\ file' = NoFile
        /\ gen' = NoGen
        /\ result_index' = -1
        /\ invoked' = <<>>
        /\ UNCHANGED <<dataset, build>>
        /\ UNCHANGED menuVars

DoInterpolationSearch(tgt) ==
    LET r == interpolationSearch(dataset, tgt, build)
    IN  /\ op' = "interpolationSearch"
        /\ target' = tgt
        /\ ret' = r.ret
        /\ reads' = r.reads
        /\ fault' = r.fault
        /\ iters' = r.iters
        /\ exit' = [low |-> r.low, high |-> r.high]
        /\ prior' = dataset
        /\ file' = NoFile
        /\ gen' = NoGen
        /\ result_index' = -1
        /\ invoked' = <<>>
        /\ UNCHANGED <<dataset, build>>
        /\ UNCHANGED menuVars

\* the duration returned is whatever the clock measured
DoMeasureSearchTime(search_func, tgt) ==
    LET m == measureSearchTime(search_func, dataset, tgt, build)
    IN  /\ op' = "measureSearchTime"
        /\ target' = tgt
        /\ ret' \in 0..MaxMicros
        /\ result_index' = m.result_index
        /\ invoked' = m.invoked
        /\ reads' = m.reads
        /\ fault' = m.fault
        /\ iters' = m.iters
        /\ exit' = m.exit
        /\ prior' = dataset
        /\ file' = NoFile
        /\ gen' = NoGen
        /\ UNCHANGED <<dataset, build>>
        /\ UNCHANGED menuVars

DoFindClosestValues(tgt) ==
    /\ op' = "findClosestValues"
    /\ target' = tgt
    /\ ret' = findClosestValues(dataset, tgt)
    /\ prior' = dataset
    /\ reads' = {}
    /\ fault' = "none"
    /\ iters' = <<>>
    /\ exit' = NoExit
    /\ file' = NoFile
    /\ gen' = NoGen
    /\ result_index' = -1
    /\ invoked' = <<>>
    /\ UNCHANGED <<dataset, build>>
    /\ UNCHANGED menuVars

DoLoad(f) ==
    LET r == loadAndSortDatasetFromFile(dataset, f)
    IN  /\ op' = "load"
        /\ file' = f
        /\ dataset' = r.dataset
        /\ ret' = r.ret
        /\ prior' = dataset
        /\ target' = 0
        /\ reads' = {}
        /\ fault' = "none"
        /\ iters' = <<>>
        /\ exit' = NoExit
        /\ gen' = NoGen
        /\ result_index' = -1
        /\ invoked' = <<>>
        /\ UNCHANGED build
        /\ UNCHANGED menuVars

\* a call returns only if the while loop ends: nothing is asked for (the
\* loop is not entered, whatever the range), or the range holds num_elements
\* distinct values
DoGenerate(num_elements, min_val, max_val) ==
    /\ \/ num_elements = 0
       \/ min_val <= max_val /\ num_elements <= max_val - min_val + 1
    /\ op' = "generate"
    /\ gen' = [num_elements |-> num_elements, min_val |-> min_val, max_val |-> max_val]
    /\ dataset' \in generateAndSortDataset(dataset, num_elements, min_val, max_val)
    /\ ret' = "void"
    /\ prior' = dataset
    /\ target' = 0
    /\ reads' = {}
    /\ fault' = "none"
    /\ iters' = <<>>
    /\ exit' = NoExit
    /\ file' = NoFile
    /\ result_index' = -1
    /\ invoked' = <<>>
    /\ UNCHANGED build
    /\ UNCHANGED menuVars

(***************************************************************************)
(* SpecSearch: the two searches applied to bounded inputs.                 *)
(***************************************************************************)
\* values near the least int, near zero and near the greatest int
SearchValues ==
    (INT_MIN..(INT_MIN + EdgeSpan)) \cup ((-EdgeSpan)..EdgeSpan)
        \cup ((INT_MAX - EdgeSpan)..INT_MAX)

\* every strictly increasing array of at most MaxLen of these values, and the
\* longer evenly spread arrays 0..m with one value left out, for m up to MaxRun
SearchArrays ==
    {SetToSortedSeq(S) : S \in {T \in SUBSET SearchValues : Cardinality(T) <= MaxLen}}
        \cup {SetToSortedSeq((0..m) \ {h}) : m \in MaxLen..MaxRun, h \in 0..MaxRun}

SearchTargets == SearchValues \cup ((-1)..(MaxRun + 1))

InitSearch ==
    /\ \E arr \in SearchArrays : Fresh(arr)
    /\ target \in SearchTargets
    /\ build \in Builds
    /\ file = NoFile
    /\ gen = NoGen
    /\ MenuIdle

CallJumpSearch == DoJumpSearch(target)

CallInterpolationSearch == DoInterpolationSearch(target)

NextSearch == CallJumpSearch \/ CallInterpolationSearch

SpecSearch == InitSearch /\ [][NextSearch]_vars

(***************************************************************************)
(* SpecClosest: findClosestValues applied to bounded inputs.               *)
(***************************************************************************)
\* every strictly increasing dataset with values in 0..MaxVal, and the longer
\* datasets 0..m with one value left out, for m up to MaxLong
ClosestDatasets ==
    {SetToSortedSeq(S) : S \in SUBSET (0..MaxVal)}
        \cup {SetToSortedSeq((0..m) \ {h}) : m \in MaxVal..MaxLong, h \in 0..MaxLong}

\* the targets that are not in the dataset d, from below its least value to
\* above its greatest
AbsentTargets(d) ==
    ((-1)..(IF d = <<>> THEN 0 ELSE d[Len(d)] + 1)) \ Range(d)

InitClosest ==
    /\ \E d \in ClosestDatasets : Fresh(d)
    /\ target \in AbsentTargets(dataset)
    /\ build = "wrap"
    /\ file = NoFile
    /\ gen = NoGen
    /\ MenuIdle

CallFindClosestValues == DoFindClosestValues(target)

NextClosest == CallFindClosestValues

SpecClosest == InitClosest /\ [][NextClosest]_vars

(***************************************************************************)
(* SpecLoad: the loader applied to bounded files.                          *)
(***************************************************************************)
\* the lines a file is made of
NotANumber == <<"n", "o", "t", "_", "a", "_", "n", "u", "m", "b", "e", "r">>

Lines ==
    {<<"5">>, <<"3">>, <<"1">>, <<"-", "2">>, NotANumber, <<"1", "x">>,
     <<"9", "9", "9", "9">>}

\* every sequence of at most k lines of the set ls
RECURSIVE LineSeqs(_, _)
LineSeqs(ls, k) ==
    IF k = 0 THEN {<<>>}
    ELSE LET shorter == LineSeqs(ls, k - 1)
         IN  shorter \cup {Append(f, l) : f \in {g \in shorter : Len(g) = k - 1},
                                             l \in ls}

\* the file that cannot be opened, and every file of at most k lines of ls
Files(ls, k) ==
    {NoFile} \cup {[openable |-> TRUE, lines |-> x] : x \in LineSeqs(ls, k)}

\* the caller's dataset is empty or holds an earlier load
InitLoad ==
    /\ \E d \in {<<>>, <<1, 3, 5>>} : Fresh(d)
    /\ file \in Files(Lines, MaxLines)
    /\ target = 0
    /\ build = "wrap"
    /\ gen = NoGen
    /\ MenuIdle

CallLoad == DoLoad(file)

NextLoad == CallLoad

SpecLoad == InitLoad /\ [][NextLoad]_vars

(***************************************************************************)
(* SpecApi: any sequence of calls on one dataset, from the empty vector.   *)
(***************************************************************************)
ApiTargets == (-3)..(GenSpan + 3)

InitApi ==
    /\ Fresh(<<>>)
    /\ target = 0
    /\ build = "wrap"
    /\ file = NoFile
    /\ gen = NoGen
    /\ MenuIdle

ApiGenerate ==
    \E num_elements \in 0..MaxGen, min_val, max_val \in 0..GenSpan :
        DoGenerate(num_elements, min_val, max_val)

\* the lines of the files loaded in a sequence of calls
ApiLines == {<<"5">>, <<"-", "2">>, NotANumber, <<"1", "x">>}

ApiLoad == \E f \in Files(ApiLines, MaxApiLines) : DoLoad(f)

ApiJumpSearch == \E tgt \in ApiTargets : DoJumpSearch(tgt)

ApiInterpolationSearch == \E tgt \in ApiTargets : DoInterpolationSearch(tgt)

ApiMeasureSearchTime ==
    \E search_func \in SearchFuncs, tgt \in ApiTargets :
        DoMeasureSearchTime(search_func, tgt)

ApiFindClosestValues == \E tgt \in ApiTargets : DoFindClosestValues(tgt)

NextApi ==
    \/ ApiGenerate
    \/ ApiLoad
    \/ ApiJumpSearch
    \/ ApiInterpolationSearch
    \/ ApiMeasureSearchTime
    \/ ApiFindClosestValues

SpecApi == InitApi /\ [][NextApi]_vars

(***************************************************************************)
(* SpecMenu: main (main.cpp).  One action per read of std::cin: a pass of  *)
(* the menu loop up to the next read, and the read of the search target.   *)
(***************************************************************************)
\* what the next read finds on std::cin: a number with more input after it,
\* a number that ends the input (no newline after it), something that is no
\* number, a numeral above or below the range of int, or the end of the input
IntInput(v) == [kind |-> "int", value |-> v]
LastInput(v) == [kind |-> "last", value |-> v]
JunkInput == [kind |-> "junk", value |-> 0]
OverInput == [kind |-> "over", value |-> 0]
UnderInput == [kind |-> "under", value |-> 0]
EofInput == [kind |-> "eof", value |-> 0]

Failures == {JunkInput, OverInput, UnderInput, EofInput}

MenuInputs ==
    {IntInput(v) : v \in 0..6} \cup {LastInput(v) : v \in 0..6} \cup Failures
TargetInputs ==
    {IntInput(v) : v \in 0..(DEFAULT_MAX_VAL + 1)}
        \cup {LastInput(v) : v \in 0..(DEFAULT_MAX_VAL + 1)} \cup Failures

\* std::cin >> x, x holding cur: with failbit set nothing is extracted and x
\* keeps its value; a number is stored, and the read sets eofbit when the
\* number ends the input; a failed conversion stores 0 and sets failbit; a
\* numeral out of range stores the nearest int and sets failbit; at the end
\* of the input failbit and eofbit are set and x keeps its value
ExtractInt(cur, failed, input) ==
    IF failed THEN [value |-> cur, fail |-> TRUE, eof |-> FALSE, ok |-> FALSE]
    ELSE IF input.kind = "int"
    THEN [value |-> input.value, fail |-> FALSE, eof |-> FALSE, ok |-> TRUE]
    ELSE IF input.kind = "last"
    THEN [value |-> input.value, fail |-> FALSE, eof |-> TRUE, ok |-> TRUE]
    ELSE IF input.kind = "junk"
    THEN [value |-> 0, fail |-> TRUE, eof |-> FALSE, ok |-> FALSE]
    ELSE IF input.kind = "over"
    THEN [value |-> INT_MAX, fail |-> TRUE, eof |-> FALSE, ok |-> FALSE]
    ELSE IF input.kind = "under"
    THEN [value |-> INT_MIN, fail |-> TRUE, eof |-> FALSE, ok |-> FALSE]
    ELSE [value |-> cur, fail |-> TRUE, eof |-> TRUE, ok |-> FALSE]

\* std::cin.ignore(max, '\n') after a read that left failbit as fail and
\* eofbit as eof: on a stream that is not good nothing is discarded and
\* failbit is set
Ignore(fail, eof) == fail \/ eof

\* what a read can find after the last one: past the end of the input there
\* is only the end of the input
Available(input) == entered.kind \in {"last", "eof"} => input = EofInput

MsgNoDataset == "No dataset loaded! Please load or generate a dataset first."
MsgEnterValue == "> Enter value to search: "
MsgInvalidInput == "Invalid input. Please enter a valid integer: "
MsgFound == "Value found at index"
MsgNotFound == "Value not found."
MsgGenerated == "Dataset generated and sorted"
MsgExit == "Exiting program. Goodbye!"
MsgInvalidChoice == "Invalid choice. Please enter a number between 1 and 5."

\* choice is not initialised: it holds any value until the first read stores one
InitMenu ==
    /\ Fresh(<<>>)
    /\ target = 0
    /\ build = "wrap"
    /\ file = NoFile
    /\ gen = NoGen
    /\ called = {}
    /\ pc = "menu"
    /\ choice \in 0..6
    /\ cinFail = FALSE
    /\ out = "none"
    /\ closest = <<>>
    /\ entered = NoInput

\* mutant of RefuseSearch: the empty dataset is not checked for
SearchUnchecked ==
    /\ out' = MsgEnterValue
    /\ pc' = "readTarget"
    /\ called' = {}
    /\ UNCHANGED dataset

\* choice 3 on an empty dataset: the refusal, then continue
RefuseSearch ==
    /\ out' = MsgNoDataset
    /\ pc' = "menu"
    /\ called' = {}
    /\ UNCHANGED dataset

\* choice 3 on a loaded dataset: go on to read the target
PromptTarget ==
    /\ out' = MsgEnterValue
    /\ pc' = "readTarget"
    /\ called' = {}
    /\ UNCHANGED dataset

\* the if chain on the choice c
Dispatch(c) ==
    IF c = 2
    THEN /\ dataset' \in generateAndSortDataset(dataset, DEFAULT_GEN_SIZE,
                                                 DEFAULT_MIN_VAL, DEFAULT_MAX_VAL)
         /\ called' = {"generateAndSortDataset"}
         /\ out' = MsgGenerated
         /\ pc' = "menu"
    ELSE IF c = 3
    THEN IF dataset = <<>> THEN RefuseSearch ELSE PromptTarget
    ELSE /\ UNCHANGED dataset
         /\ called' = {}
         /\ out' = (IF c \in {1, 4} THEN "none"
                    ELSE IF c = 5 THEN MsgExit ELSE MsgInvalidChoice)
         /\ pc' = (IF c = 5 THEN "done" ELSE "menu")

\* one pass of the do-while loop: the menu, the read of the choice, the branch
MenuPass(input) ==
    /\ pc = "menu"
    /\ Available(input)
    /\ LET x == ExtractInt(choice, cinFail, input)
       IN  /\ choice' = x.value
           /\ cinFail' = Ignore(x.fail, x.eof)
           /\ Dispatch(x.value)
    /\ entered' = input
    /\ op' = "pass"
    /\ prior' = dataset
    /\ ret' = "none"
    /\ reads' = {}
    /\ fault' = "none"
    /\ iters' = <<>>
    /\ exit' = NoExit
    /\ result_index' = -1
    /\ invoked' = <<>>
    /\ closest' = <<>>
    /\ UNCHANGED <<target, build, file, gen>>

\* the rest of choice 3 once the target val is read: the timed jumpSearch,
\* and the closest values when it finds nothing
SearchAndReport(val) ==
    LET m == measureSearchTime("jumpSearch", dataset, val, build)
    IN  /\ result_index' = m.result_index
        /\ invoked' = m.invoked
        /\ reads' = m.reads
        /\ fault' = m.fault
        /\ iters' = m.iters
        /\ exit' = m.exit
        /\ ret' \in 0..MaxMicros
        /\ IF m.result_index # -1
           THEN /\ out' = MsgFound
                /\ closest' = <<>>
                /\ called' = {"measureSearchTime", "jumpSearch"}
           ELSE /\ out' = MsgNotFound
                /\ closest' = findClosestValues(dataset, val)
                /\ called' = {"measureSearchTime", "jumpSearch", "findClosestValues"}
        /\ pc' = "menu"

\* while (!(std::cin >> target)): a failed read clears the stream, discards
\* the line and asks again; after the read that succeeds the rest of the
\* line is discarded
ReadTarget(input) ==
    /\ pc = "readTarget"
    /\ Available(input)
    /\ LET x == ExtractInt(target, cinFail, input)
       IN  /\ target' = x.value
           /\ cinFail' = (IF x.ok THEN Ignore(x.fail, x.eof) ELSE FALSE)
           /\ IF x.ok THEN SearchAndReport(x.value)
              ELSE /\ out' = MsgInvalidInput
                   /\ pc' = "readTarget"
                   /\ called' = {}
                   /\ ret' = "none"
                   /\ reads' = {}
                   /\ fault' = "none"
                   /\ iters' = <<>>
                   /\ exit' = NoExit
                   /\ UNCHANGED <<result_index, invoked, closest>>
    /\ entered' = input
    /\ op' = "readTarget"
    /\ prior' = dataset
    /\ UNCHANGED <<dataset, choice, build, file, gen>>

NextMenu ==
    \/ \E input \in MenuInputs : MenuPass(input)
    \/ \E input \in TargetInputs : ReadTarget(input)

SpecMenu == InitMenu /\ [][NextMenu]_vars

(***************************************************************************)
(* jumpSearch and interpolationSearch: results and reads.                  *)
(***************************************************************************)
Occurs(arr, tgt) == \E i \in 1..Len(arr) : arr[i] = tgt

\* what a search has to return: the index of the target, or -1 without one
FindsTarget(arr, tgt, r) ==
    IF Occurs(arr, tgt)
    THEN InBounds(arr, r) /\ arr[r + 1] = tgt
    ELSE r = -1

\* C1: jumpSearch returns the index of the target when the target occurs in
\* the strictly increasing arr, and -1 when it does not (arr empty included).
C1_JumpSearchFindsTarget ==
    op = "jumpSearch" => FindsTarget(dataset, target, ret)

\* the target is found in the last block, after the block pointer moved
C1_Witness ==
    /\ op = "jumpSearch"
    /\ Len(dataset) = 10
    /\ ret = 8
    /\ dataset[9] = target

\* C2: interpolationSearch returns the index of the target when the target
\* occurs in the strictly increasing arr, and -1 when it does not.
C2_InterpolationSearchFindsTarget ==
    op = "interpolationSearch" => FindsTarget(dataset, target, ret)

\* C3: every index jumpSearch and interpolationSearch use to read arr lies in
\* [0, n-1], whatever the target.
C3_ReadsInBounds ==
    op \in {"jumpSearch", "interpolationSearch"}
        => \A i \in reads : InBounds(dataset, i)

\* the target is above every element and the block pointer walks past n
C3_Witness ==
    /\ op = "jumpSearch"
    /\ Len(dataset) = 10
    /\ target > dataset[10]
    /\ 9 \in reads
    /\ ret = -1

(***************************************************************************)
(* findClosestValues: the values returned.                                 *)
(***************************************************************************)
Distance(v, tgt) == Abs(v - tgt)

\* C4: findClosestValues returns the min(10, n) dataset values nearest to the
\* absent target: no value left out is strictly closer to the target than a
\* value that is returned.
C4_ClosestAreNearest ==
    op = "findClosestValues" =>
        /\ Len(ret) = Min(10, Len(dataset))
        /\ \A v \in Range(dataset) \ Range(ret) :
               \A r \in Range(ret) : Distance(v, target) >= Distance(r, target)

\* C5: for a non-empty dataset and an absent target the result has exactly
\* min(10, n) values, pairwise distinct, all of the dataset, ascending by
\* (|value - target|, value); for the empty dataset it is empty.
C5_ClosestShape ==
    op = "findClosestValues" =>
        /\ Len(ret) = Min(10, Len(dataset))
        /\ \A i, j \in 1..Len(ret) : i # j => ret[i] # ret[j]
        /\ Range(ret) \subseteq Range(dataset)
        /\ \A i \in 1..(Len(ret) - 1) : CloserThan(ret[i], ret[i + 1], target)
        /\ dataset = <<>> => ret = <<>>

\* a dataset longer than 10 with the target near its front, where the window
\* is cut short and the result is filled up from the front of the dataset
C5_Witness ==
    /\ op = "findClosestValues"
    /\ Len(dataset) = 12
    /\ target > dataset[2]
    /\ target < dataset[3]
    /\ Len(ret) = 10

(***************************************************************************)
(* loadAndSortDatasetFromFile: failures and the lines kept.                *)
(***************************************************************************)
\* C6: when the file cannot be opened the loader returns the failure signal
\* and leaves the caller's dataset exactly as it was before the call.
C6_OpenFailureKeepsDataset ==
    (op = "load" /\ ~file.openable) => (ret = FALSE /\ dataset = prior)

\* C6 as amended: when the file cannot be opened the loader returns the
\* failure signal and leaves the caller's dataset empty.
C6_OpenFailureClearsDataset ==
    (op = "load" /\ ~file.openable) => (ret = FALSE /\ dataset = <<>>)

\* the open fails while a dataset is loaded
C6_Witness ==
    /\ op = "load"
    /\ ~file.openable
    /\ prior = <<1, 3, 5>>
    /\ ret = FALSE

\* a line that is a valid in-range integer: optional leading whitespace, an
\* optional sign, then digits and nothing else, the value being an int
ValidLine(line) ==
    LET body == SkipSpaces(line)
        unsigned == IF body # <<>> /\ Head(body) \in {"+", "-"} THEN Tail(body) ELSE body
    IN  /\ unsigned # <<>>
        /\ \A k \in 1..Len(unsigned) : unsigned[k] \in Digits
        /\ stoi(line).thrown = "none"

\* the values of the valid lines of the file f
ValidValues(f) ==
    {stoi(f.lines[k]).value : k \in {j \in 1..Len(f.lines) : ValidLine(f.lines[j])}}

\* C7: on an openable file the loader skips every line that is not a valid
\* in-range integer and keeps every line that is; it returns success exactly
\* when some line was valid, the dataset then being the ascending
\* duplicate-free sequence of the valid lines' values; with no valid line it
\* returns failure and leaves the dataset empty.
C7_LoaderKeepsValidLines ==
    (op = "load" /\ file.openable) =>
        /\ ret = (ValidValues(file) # {})
        /\ dataset = SetToSortedSeq(ValidValues(file))

(***************************************************************************)
(* The dataset across calls, the timing harness and the menu.              *)
(***************************************************************************)
\* the values std::stoi takes from the lines of the file f
ParsedValues(f) ==
    {stoi(f.lines[k]).value : k \in {j \in 1..Len(f.lines) : stoi(f.lines[j]).thrown = "none"}}

\* C8: after any sequence of generate and load calls interleaved with
\* searches the dataset is strictly increasing; a generate or load replaces
\* the contents wholesale, a generate leaving exactly num_elements values, all
\* within [min_val, max_val]; the searches, measureSearchTime and
\* findClosestValues never change the dataset.
C8_DatasetInvariant ==
    /\ StrictlyIncreasing(dataset)
    /\ op = "generate" =>
           /\ Len(dataset) = gen.num_elements
           /\ Range(dataset) \subseteq gen.min_val..gen.max_val
    /\ op = "load" =>
           Range(dataset) = (IF file.openable THEN ParsedValues(file) ELSE {})
    /\ op \in {"jumpSearch", "interpolationSearch", "measureSearchTime",
               "findClosestValues"} => dataset = prior

\* a generate replaces a dataset loaded from a file with values none of which
\* was in it
C8_Witness ==
    /\ op = "generate"
    /\ prior = <<-2, 5>>
    /\ dataset = <<1, 2, 3>>

\* C9: a call of measureSearchTime invokes the search function exactly once,
\* with the dataset and the target given, stores that invocation's return
\* value in result_index and leaves the dataset unchanged.
C9_MeasureInvokesOnce ==
    op = "measureSearchTime" =>
        /\ Len(invoked) = 1
        /\ invoked[1].arr = prior
        /\ invoked[1].val = target
        /\ result_index = Invoke(invoked[1].func, prior, target, build).ret
        /\ dataset = prior

\* interpolationSearch is timed and finds the target
C9_Witness ==
    /\ op = "measureSearchTime"
    /\ Len(invoked) = 1
    /\ invoked[1].func = "interpolationSearch"
    /\ Len(dataset) = 3
    /\ result_index = 2

\* C10: in the menu loop no search runs against an empty dataset: choice 3 on
\* an empty dataset prints the refusal and returns to the menu without reading
\* a target and without calling jumpSearch, measureSearchTime or
\* findClosestValues.
C10_NoSearchOnEmptyDataset ==
    /\ pc = "readTarget" => dataset # <<>>
    /\ called \cap {"jumpSearch", "measureSearchTime", "findClosestValues"} # {}
           => dataset # <<>>
    /\ (op = "pass" /\ choice = 3 /\ dataset = <<>>) =>
           /\ out = MsgNoDataset
           /\ pc = "menu"
           /\ called = {}
           /\ invoked = <<>>

\* choice 3 was read while the dataset was empty
C10_Witness ==
    /\ op = "pass"
    /\ choice = 3
    /\ cinFail = FALSE
    /\ dataset = <<>>
    /\ out = MsgNoDataset

(***************************************************************************)
(* interpolationSearch: the probe formula, pass by pass.                   *)
(***************************************************************************)
\* the passes of the last interpolationSearch that evaluated the formula
ProbePasses == {k \in 1..Len(iters) : ~iters[k].single}

\* the interpolation estimate: the product is formed first, then divided
ProductFirst(it) == it.low + ((it.span * it.tdiff) \div it.vdiff)

\* C11: every probe interpolationSearch computes (low < high and
\* arr[low] <= target <= arr[high]) is at position
\* low + floor(((high - low) * (target - arr[low])) / (arr[high] - arr[low])):
\* the product is formed before the division.
C11_ProbeIsProductBeforeDivision ==
    op = "interpolationSearch" =>
        \A k \in ProbePasses :
            /\ iters[k].low < iters[k].high
            /\ iters[k].vdiff > 0
            /\ iters[k].pos_calc = ProductFirst(iters[k])

\* C12: in the probe computation every intermediate value fits in the type
\* the code computes it in: target - arr[low] and arr[high] - arr[low] in
\* int, high - low, the quotient, the product and the sum in long long, for
\* every strictly increasing dataset and every target, the datasets that
\* span the least and the greatest int included.
C12_IntermediatesFit ==
    op = "interpolationSearch" =>
        \A k \in ProbePasses :
            /\ iters[k].tdiff \in IntRange
            /\ iters[k].vdiff \in IntRange
            /\ iters[k].span \in LongRange
            /\ iters[k].quot \in LongRange
            /\ iters[k].prod \in LongRange
            /\ iters[k].pos_calc \in LongRange

\* C13: on a sorted dataset without duplicates the divisor
\* arr[high] - arr[low] is not zero where the probe formula is evaluated:
\* a pass with low = high returns from the single-element branch, before
\* the formula.
C13_DivisorNeverZero ==
    (op = "interpolationSearch" /\ StrictlyIncreasing(dataset)) =>
        /\ fault # "division by zero"
        /\ \A k \in 1..Len(iters) :
               IF iters[k].low = iters[k].high
               THEN iters[k].single /\ k = Len(iters)
               ELSE ~iters[k].single /\ iters[k].divisor # 0

\* a search that probed and then came down to a single element
C13_Witness ==
    /\ op = "interpolationSearch"
    /\ StrictlyIncreasing(dataset)
    /\ Len(iters) >= 2
    /\ ~iters[1].single
    /\ iters[Len(iters)].single

\* low and high at the start of every pass of the last interpolationSearch,
\* followed by low and high as the loop left them when the last pass went on
\* to the loop condition
Ranges ==
    LET starts == [k \in 1..Len(iters) |->
                       [low |-> iters[k].low, high |-> iters[k].high]]
    IN  IF starts # <<>> /\ starts[Len(starts)] = exit THEN starts
        ELSE Append(starts, exit)

\* C14: interpolationSearch terminates on every strictly increasing arr of
\* length n and every target: a pass that does not return makes high - low
\* strictly smaller, 0 <= low and high <= n - 1 are kept, at most n passes
\* run, and an exit without a match returns -1.
C14_InterpolationSearchTerminates ==
    (op = "interpolationSearch" /\ StrictlyIncreasing(dataset)) =>
        /\ fault # "loops forever"
        /\ \A k \in 1..Len(Ranges) :
               0 <= Ranges[k].low /\ Ranges[k].high <= Len(dataset) - 1
        /\ \A k \in 1..(Len(Ranges) - 1) :
               Ranges[k + 1].high - Ranges[k + 1].low
                   < Ranges[k].high - Ranges[k].low
        /\ Len(iters) <= Len(dataset)
        /\ \/ ret = -1
           \/ InBounds(dataset, ret) /\ At(dataset, ret) = target

\* a search that ran as many passes as arr has elements, every pass but the
\* last making the range smaller
C14_Witness ==
    /\ op = "interpolationSearch"
    /\ StrictlyIncreasing(dataset)
    /\ Len(dataset) >= 3
    /\ Len(iters) = Len(dataset)
    /\ ret = Len(dataset) - 1
    /\ fault = "none"

(***************************************************************************)
(* main: the end of the menu loop.                                         *)
(***************************************************************************)
\* C15: the menu loop ends only with the choice 5, and in every state the
\* loop can reach, the state after a menu entry that is no number included,
\* the loop reads again, so that an entry of 5 ends the program: a pass of
\* the loop that finds 5 on std::cin is the last one.
C15_EntryOfFiveEndsLoop ==
    /\ pc = "done" => choice = 5
    /\ (op = "pass" /\ entered \in {IntInput(5), LastInput(5)}) => pc = "done"

====
